---------------------------- MODULE Spec2Model ----------------------------
(***************************************************************************)
(* Model of kuaiqu_psu: the PowerSupply facade (kuaiqu_psu.py) over a      *)
(* serial port, and the kuaiquctl command line (kuaiquctl.py).             *)
(*                                                                         *)
(* Byte strings and Python str values are sequences of one-character       *)
(* strings.  A Python float is a record holding its exact binary value:    *)
(* the integer part and the bits of the fraction, at most 53 significant   *)
(* bits together, so that parsing a decimal literal, f % 1 and the         *)
(* rounding of fractional_part*1000 are computed as IEEE-754 binary64      *)
(* computes them.                                                          *)
(***************************************************************************)
EXTENDS Integers, Sequences, FiniteSets, TLC

VARIABLES
    max_voltage,  \* PowerSupply.max_voltage  ([set, val]; set = FALSE is None)
    max_current,  \* PowerSupply.max_current
    port,         \* PowerSupply.port: "opened" (serial.Serial(path)) or "supplied"
    close_port,   \* PowerSupply._close_port
    portOpen,     \* the port object is open
    closeCalls,   \* number of port.close() calls made by the facade
    nwrites,      \* number of port.write() calls
    nreads,       \* number of port.read_until() calls
    rx,           \* bytes received by the port and not yet read
    inflight,     \* device replies not yet arrived at the port (FIFO of chunks)
    exited,       \* __exit__ has run (the with block was left)
    ncalls,       \* number of facade operations called
    last,         \* the last facade operation: its argument, what it wrote to
                  \* and read from the port, and its outcome
    cli,          \* kuaiquctl(): arguments, position, exit status
    codec         \* a use of the frame codec on its own: the Command or the
                  \* bytes handed to it, and what encode and from_bytes gave

vars == <<max_voltage, max_current, port, close_port, portOpen, closeCalls,
          nwrites, nreads, rx, inflight, exited, ncalls, last, cli, codec>>

-----------------------------------------------------------------------------
(* Bounds of the model *)

\* facade operations a library caller makes in one session
MaxCalls == 2

\* device replies that may be outstanding (in flight or unread) at once
MaxBacklog == 1

\* calls of close() a library caller makes in one session
MaxCloseCalls == 1

-----------------------------------------------------------------------------
(* Python values *)

\* bits of precision of a Python float (IEEE-754 binary64 significand)
FloatPrecision == 53

\* A float's fraction is held exactly, in FracLimbs limbs of LimbBits bits
\* each, most significant first: every float in {0} \cup [2^-27, 2^30) has
\* such a fraction.
LimbBits == 16
LimbBase == 2 ^ LimbBits
FracLimbs == 5
ZeroFrac == <<0, 0, 0, 0, 0>>

DigitChars == <<"0", "1", "2", "3", "4", "5", "6", "7", "8", "9">>

\* number of bits of n (0 for n = 0), n < 2^30
BitLen(n) == CHOOSE k \in 0..30 : n < 2 ^ k /\ (k = 0 \/ n >= 2 ^ (k - 1))

\* bit pos (1 = the most significant, worth 1/2) of the fraction fr
BitAt(fr, pos) ==
    IF pos < 1 \/ pos > LimbBits * Len(fr) THEN 0
    ELSE LET limb == fr[((pos - 1) \div LimbBits) + 1]
         IN (limb \div 2 ^ (LimbBits - 1 - ((pos - 1) % LimbBits))) % 2

AnyBitFrom(fr, pos) == \E q \in pos..(LimbBits * Len(fr)) : BitAt(fr, q) = 1

\* zero bits before the first one bit of fr (all of them when fr is zero)
LeadingZeros(fr) ==
    IF ~AnyBitFrom(fr, 1) THEN LimbBits * Len(fr)
    ELSE (CHOOSE q \in 1..(LimbBits * Len(fr)) :
              BitAt(fr, q) = 1 /\ ~\E p \in 1..(q - 1) : BitAt(fr, p) = 1) - 1

\* the sequence s with its element j replaced by v
ReplaceAt(s, j, v) == SubSeq(s, 1, j - 1) \o <<v>> \o SubSeq(s, j + 1, Len(s))

RECURSIVE Repeat(_, _)
Repeat(c, n) == IF n <= 0 THEN <<>> ELSE <<c>> \o Repeat(c, n - 1)

\* fr with every bit after the first `keep` bits cleared
TruncateBits(fr, keep) ==
    IF keep >= LimbBits * Len(fr) THEN fr
    ELSE LET j == (keep \div LimbBits) + 1
             low == 2 ^ (LimbBits * j - keep)
         IN SubSeq(fr, 1, j - 1) \o <<(fr[j] \div low) * low>>
                \o Repeat(0, Len(fr) - j)

\* fr with `amount` added to limb j, the carry going up; carry is what
\* leaves the fraction at the top
RECURSIVE AddToLimb(_, _, _)
AddToLimb(fr, j, amount) ==
    IF amount = 0 THEN [fr |-> fr, carry |-> 0]
    ELSE IF j = 0 THEN [fr |-> fr, carry |-> amount]
    ELSE LET s == fr[j] + amount
         IN AddToLimb(ReplaceAt(fr, j, s % LimbBase), j - 1, s \div LimbBase)

\* A finite non-negative float: ip + 0.fr (binary)
Float(ip, fr) == [cls |-> "fin", neg |-> FALSE, ip |-> ip, fr |-> fr]
NegFloat(ip, fr) == [cls |-> "fin", neg |-> TRUE, ip |-> ip, fr |-> fr]
NaN == [cls |-> "nan", neg |-> FALSE, ip |-> 0, fr |-> ZeroFrac]
Infinity == [cls |-> "inf", neg |-> FALSE, ip |-> 0, fr |-> ZeroFrac]
\* a bool argument, and the absence of an argument
Bool(b) == [cls |-> "bool", neg |-> FALSE, ip |-> IF b THEN 1 ELSE 0, fr |-> ZeroFrac]
NoArg == [cls |-> "none", neg |-> FALSE, ip |-> 0, fr |-> ZeroFrac]

\* Round the exact binary value ip + 0.fr (plus a non-zero tail below fr
\* when sticky) to the nearest float, ties to even.
RoundToFloat(ip, fr, sticky) ==
    LET keep == IF ip > 0 THEN FloatPrecision - BitLen(ip)
                ELSE LeadingZeros(fr) + FloatPrecision
        kept == TruncateBits(fr, keep)
        guard == BitAt(fr, keep + 1)
        rest == sticky \/ AnyBitFrom(fr, keep + 2)
        odd == IF keep = 0 THEN ip % 2 = 1 ELSE BitAt(fr, keep) = 1
        up == IF keep = 0 THEN [fr |-> kept, carry |-> 1]
              ELSE AddToLimb(kept, ((keep - 1) \div LimbBits) + 1,
                             2 ^ (LimbBits - 1 - ((keep - 1) % LimbBits)))
    IN IF guard = 1 /\ (rest \/ odd)
       THEN Float(ip + up.carry, SubSeq(up.fr, 1, FracLimbs))
       ELSE Float(ip, SubSeq(kept, 1, FracLimbs))

\* The first `count` limbs of the binary expansion of r/d (0 <= r < d <
\* 2^15), and the remainder left below them
RECURSIVE ExpandLimbs(_, _, _)
ExpandLimbs(r, d, count) ==
    IF count = 0 THEN [fr |-> <<>>, rem |-> r]
    ELSE LET t == r * LimbBase
             more == ExpandLimbs(t % d, d, count - 1)
         IN [fr |-> <<t \div d>> \o more.fr, rem |-> more.rem]

\* float("n/d" written as a decimal): the float nearest to n/d
ParseFloat(n, d) ==
    LET x == ExpandLimbs(n % d, d, FracLimbs + 1)
    IN RoundToFloat(n \div d, x.fr, x.rem # 0)

\* int(f) of a finite non-negative float
IntOf(f) == f.ip

\* f % 1 of a finite non-negative float (exact)
Mod1(f) == Float(0, f.fr)

\* The exact product 1000 * 0.fr, as integer part and fraction: limb i
\* times 1000 plus the carry from the limbs below it
RECURSIVE ExactTimes1000(_, _, _)
ExactTimes1000(fr, i, carry) ==
    IF i = 0 THEN [ip |-> carry, fr |-> fr]
    ELSE LET t == fr[i] * 1000 + carry
         IN ExactTimes1000(ReplaceAt(fr, i, t % LimbBase), i - 1, t \div LimbBase)

\* f * 1000 for a float 0 <= f < 1: the exact product rounded to a float
Times1000(f) ==
    LET p == ExactTimes1000(f.fr, Len(f.fr), 0) IN RoundToFloat(p.ip, p.fr, FALSE)

\* math.isfinite(f)
IsFinite(f) == f.cls = "fin"

\* f >= 0
NonNegative(f) == f.cls # "nan" /\ ~f.neg

\* f > m for a float f that passed the two assertions and an int m
GreaterThanInt(f, m) == f.ip > m \/ (f.ip = m /\ f.fr # ZeroFrac)

RECURSIVE Digits(_)
Digits(n) ==
    IF n < 10 THEN <<DigitChars[n + 1]>>
    ELSE Append(Digits(n \div 10), DigitChars[(n % 10) + 1])

\* f'{n:03}' for an int n >= 0: at least three digits, zeros on the left
FormatInt03(n) == LET ds == Digits(n) IN Repeat("0", 3 - Len(ds)) \o ds

\* f'{s:<fill><width>}' for a str s: at least width characters, the fill
\* on the right (a str is left-aligned), never cut
FormatStr(s, fill, width) == s \o Repeat(fill, width - Len(s))

-----------------------------------------------------------------------------
(* PowerSupply.Command and the frame codec *)

\* Command.Function
SET_VOLTAGE == <<"1">>
READ_VOLTAGE == <<"2">>
SET_CURRENT == <<"3">>
READ_CURRENT == <<"4">>
ENABLE_OUTPUT == <<"7">>
DISABLE_OUTPUT == <<"8">>
LOCK == <<"9">>

\* Command.LockData1
LockData1_LOCK == <<"1", "0", "0">>
LockData1_UNLOCK == <<"2", "0", "0">>

\* PowerSupply.Mode
CONSTANT_VOLTAGE == "CONSTANT_VOLTAGE"
CONSTANT_CURRENT == "CONSTANT_CURRENT"

\* The dataclass, with its defaults for address, data2 and device
Command(function, data1, data2) ==
    [address |-> <<"0">>, function |-> function, data1 |-> data1,
     data2 |-> data2, device |-> <<"0", "0", "0">>]

DefaultData == <<"0", "0", "0">>

\* Bytes and characters outside ASCII.  A byte of 0x80 and above is written
\* "0xNN" and the character U+00E9 "U+00E9"; every other element of a byte
\* string or a str is an ASCII character, the same in both.
LeadBytes == {"0xC3"}           \* starts a two-byte UTF-8 sequence
ContinuationBytes == {"0xA9"}   \* continues one
InvalidBytes == {"0xFF"}        \* never valid in UTF-8
NonAsciiBytes == LeadBytes \cup ContinuationBytes \cup InvalidBytes

\* str.encode(): UTF-8, U+00E9 becomes the two bytes C3 A9
RECURSIVE str_encode(_)
str_encode(s) ==
    IF s = <<>> THEN <<>>
    ELSE (IF Head(s) = "U+00E9" THEN <<"0xC3", "0xA9">> ELSE <<Head(s)>>)
             \o str_encode(Tail(s))

\* bytes.decode(): UTF-8, strict.  The str, or the UnicodeDecodeError raised
\* at a byte that starts no character or a lead byte that has no
\* continuation after it
RECURSIVE bytes_decode(_)
bytes_decode(b) ==
    IF b = <<>> THEN [raised |-> "", str |-> <<>>]
    ELSE IF Head(b) \notin NonAsciiBytes
    THEN LET rest == bytes_decode(Tail(b))
         IN [raised |-> rest.raised,
             str |-> IF rest.raised = "" THEN <<Head(b)>> \o rest.str ELSE <<>>]
    ELSE IF Head(b) \in LeadBytes /\ Len(b) >= 2 /\ b[2] \in ContinuationBytes
    THEN LET rest == bytes_decode(SubSeq(b, 3, Len(b)))
         IN [raised |-> rest.raised,
             str |-> IF rest.raised = "" THEN <<"U+00E9">> \o rest.str ELSE <<>>]
    ELSE [raised |-> "UnicodeDecodeError", str |-> <<>>]

\* Command.encode
encode(cmd) ==
    str_encode(<<"<">> \o FormatStr(cmd.address, " ", 1)
                   \o FormatStr(cmd.function, " ", 1)
                   \o FormatStr(cmd.data1, "0", 3) \o FormatStr(cmd.data2, "0", 3)
                   \o FormatStr(cmd.device, "0", 3) \o <<">">>)

\* from_bytes without its check of the first byte
FrameAssertionsNoStart(b) ==
    /\ b # <<>>
    /\ Len(b) = 13
    /\ b[Len(b)] = ">"

\* The four assertions of Command.from_bytes (and of from_str, on the same
\* characters once decoded)
FrameAssertions(b) ==
    /\ b # <<>>
    /\ Len(b) = 13
    /\ b[1] = "<"
    /\ b[Len(b)] = ">"

\* Command.from_str, on a string that passed the assertions
from_str(s) ==
    [address |-> SubSeq(s, 2, 2), function |-> SubSeq(s, 3, 3),
     data1 |-> SubSeq(s, 4, 6), data2 |-> SubSeq(s, 7, 9),
     device |-> SubSeq(s, 10, 12)]

\* Command.is_ok_rsp
is_ok_rsp(cmd) == cmd.data1 = <<"O", "K", "0">>

\* What an operation hands back: None, a Command, or a (value, mode) tuple
\* whose value is held in thousandths
NoCommand == [address |-> <<>>, function |-> <<>>, data1 |-> <<>>,
              data2 |-> <<>>, device |-> <<>>]
None == [t |-> "None", cmd |-> NoCommand, milli |-> 0, mode |-> ""]
CommandValue(c) == [t |-> "Command", cmd |-> c, milli |-> 0, mode |-> ""]
TupleValue(milli, m) == [t |-> "tuple", cmd |-> NoCommand, milli |-> milli, mode |-> m]

\* bool(x), as `if not x` applies it: None is false; a Command (a dataclass
\* with neither __bool__ nor __len__) and a two-element tuple are true
Truthy(x) == x.t # "None"

\* Command.from_bytes: its assertions on the bytes, b.decode(), and
\* from_str with its assertions on the str: a Command, or the error raised
from_bytes(b) ==
    IF ~FrameAssertions(b) THEN [raised |-> "AssertionError", ret |-> None]
    ELSE LET s == bytes_decode(b)
         IN IF s.raised # "" THEN [raised |-> s.raised, ret |-> None]
            ELSE IF ~FrameAssertions(s.str)
            THEN [raised |-> "AssertionError", ret |-> None]
            ELSE [raised |-> "", ret |-> CommandValue(from_str(s.str))]

\* the str is made of decimal digits only (int() takes it)
IsDigits(s) ==
    s # <<>> /\ \A i \in 1..Len(s) : \E d \in 1..10 : DigitChars[d] = s[i]

DigitValue(c) == (CHOOSE d \in 1..10 : DigitChars[d] = c) - 1

\* int(s) for a str of decimal digits
RECURSIVE IntOfStr(_)
IntOfStr(s) ==
    IF s = <<>> THEN 0
    ELSE 10 * IntOfStr(SubSeq(s, 1, Len(s) - 1)) + DigitValue(s[Len(s)])

-----------------------------------------------------------------------------
(* The serial port and the device behind it *)

RECURSIVE Flatten(_)
Flatten(chunks) ==
    IF chunks = <<>> THEN <<>> ELSE Head(chunks) \o Flatten(Tail(chunks))

HasTerminator(bytes) == \E i \in 1..Len(bytes) : bytes[i] = ">"

FirstTerminator(bytes) ==
    CHOOSE i \in 1..Len(bytes) : bytes[i] = ">" /\ \A j \in 1..(i - 1) : bytes[j] # ">"

\* port.read_until(b'>') on the received bytes: up to and including the
\* first '>', or on timeout whatever arrived (possibly nothing)
ReadUntil(bytes) ==
    IF HasTerminator(bytes)
    THEN LET i == FirstTerminator(bytes)
         IN [data |-> SubSeq(bytes, 1, i), left |-> SubSeq(bytes, i + 1, Len(bytes))]
    ELSE [data |-> bytes, left |-> <<>>]

\* What the device may send back for a command: nothing, an
\* acknowledgement, a reading in constant-voltage or in constant-current
\* mode, or a damaged frame (cut off before its end, or its start lost)
ReplyKinds == {"silent", "ack", "cv", "cc", "cut", "nostart"}

DeviceReply(kind) ==
    CASE kind = "silent" -> <<>>
      [] kind = "ack" ->
            <<"<", "0", "0", "O", "K", "0", "0", "0", "0", "0", "0", "0", ">">>
      [] kind = "cv" ->
            <<"<", "1", "0", "0", "0", "5", "1", "5", "0", "0", "0", "0", ">">>
      [] kind = "cc" ->
            <<"<", "0", "0", "0", "1", "2", "0", "0", "7", "0", "0", "0", ">">>
      [] kind = "cut" -> <<"<", "0", "0", "O", "K">>
      [] kind = "nostart" ->
            <<"0", "0", "O", "K", "0", "0", "0", "0", "0", "0", "0", "0", ">">>

\* replies outstanding: in flight, or received and unread
Backlog == Len(inflight) + (IF rx = <<>> THEN 0 ELSE 1)

\* The device answers only while fewer than MaxBacklog replies are outstanding
MayReply(kind) == kind = "silent" \/ Backlog < MaxBacklog

Min(a, b) == IF a <= b THEN a ELSE b

-----------------------------------------------------------------------------
(* PowerSupply: the exchange and the facade operations.  Each yields the    *)
(* outcome of one call made in the current state: what it raised or         *)
(* returned, what it wrote and read, and the bytes left on the line.  kind  *)
(* is the device's reaction to the frame written and arrive the number of   *)
(* outstanding replies that reach the port before the read returns.         *)

Outcome(raised, ret, wrote, reads, rsp, rxLeft, flying) ==
    [raised |-> raised, ret |-> ret, wrote |-> wrote, reads |-> reads,
     rsp |-> rsp, rx |-> rxLeft, inflight |-> flying]

\* an exception raised before any I/O
RaisedBeforeIO(exc) == Outcome(exc, None, <<>>, 0, <<>>, rx, inflight)

\* send_cmd that, when the read times out with nothing, writes the command
\* and reads once more
send_cmdRetrying(cmd, read_response, kind, arrive) ==
    LET cmd_data == encode(cmd)
        reply == DeviceReply(kind)
        sent == IF reply = <<>> THEN inflight ELSE Append(inflight, reply)
    IN IF read_response
       THEN LET n == Min(arrive, Len(sent))
                got == ReadUntil(rx \o Flatten(SubSeq(sent, 1, n)))
                rsp_cmd == IF got.data # <<>> THEN from_bytes(got.data)
                           ELSE [raised |-> "", ret |-> None]
            IN IF got.data = <<>>
               THEN Outcome("", None, <<cmd_data, cmd_data>>, 2, <<>>, got.left,
                            SubSeq(sent, n + 1, Len(sent)))
               ELSE Outcome(rsp_cmd.raised, rsp_cmd.ret, <<cmd_data>>, 1, got.data,
                            got.left, SubSeq(sent, n + 1, Len(sent)))
       ELSE Outcome("", None, <<cmd_data>>, 0, <<>>, rx, sent)

\* PowerSupply.send_cmd
send_cmd(cmd, read_response, kind, arrive) ==
    LET cmd_data == encode(cmd)
        reply == DeviceReply(kind)
        sent == IF reply = <<>> THEN inflight ELSE Append(inflight, reply)
    IN IF read_response
       THEN LET n == Min(arrive, Len(sent))
                got == ReadUntil(rx \o Flatten(SubSeq(sent, 1, n)))
                rsp_cmd == IF got.data # <<>> THEN from_bytes(got.data)
                           ELSE [raised |-> "", ret |-> None]
            IN Outcome(rsp_cmd.raised, rsp_cmd.ret, <<cmd_data>>, 1, got.data,
                       got.left, SubSeq(sent, n + 1, Len(sent)))
       ELSE Outcome("", None, <<cmd_data>>, 0, <<>>, rx, sent)

\* output waiting for a response like every other operation
OutputAwaitingResponse(enable, kind) ==
    send_cmd(Command(IF enable THEN ENABLE_OUTPUT ELSE DISABLE_OUTPUT,
                     DefaultData, DefaultData), TRUE, kind, 1)

\* PowerSupply.output
output(enable, kind) ==
    LET rsp == send_cmd(Command(IF enable THEN ENABLE_OUTPUT ELSE DISABLE_OUTPUT,
                                DefaultData, DefaultData), FALSE, kind, 0)
    IN Outcome(rsp.raised, None, rsp.wrote, rsp.reads, rsp.rsp, rsp.rx, rsp.inflight)

\* the assertions without the one on the sign
ValidSetpointAnySign(value) == IsFinite(value)

\* the two assertions on a setpoint
ValidSetpoint(value) == IsFinite(value) /\ NonNegative(value)

\* no clamp at all
ClampNothing(value, maximum) == value

\* the clamp: a value above the configured maximum becomes the maximum
Clamp(value, maximum) ==
    IF maximum.set /\ GreaterThanInt(value, maximum.val)
    THEN Float(maximum.val, ZeroFrac)
    ELSE value

\* _split_int_fractional
split_int_fractional(f) == [int_part |-> IntOf(f), fractional_part |-> Mod1(f)]

\* the Command a setpoint is sent as: data1 the integer part, data2
\* int(fractional_part*1000)
SetpointCommand(function, value) ==
    LET parts == split_int_fractional(value)
        fractional_part == IntOf(Times1000(parts.fractional_part))
    IN Command(function, FormatInt03(parts.int_part), FormatInt03(fractional_part))

\* PowerSupply.set_voltage
set_voltage(voltage, kind, arrive) ==
    IF ~ValidSetpoint(voltage) THEN RaisedBeforeIO("AssertionError")
    ELSE send_cmd(SetpointCommand(SET_VOLTAGE, Clamp(voltage, max_voltage)),
                  TRUE, kind, arrive)

\* PowerSupply.set_current
set_current(current, kind, arrive) ==
    IF ~ValidSetpoint(current) THEN RaisedBeforeIO("AssertionError")
    ELSE send_cmd(SetpointCommand(SET_CURRENT, Clamp(current, max_current)),
                  TRUE, kind, arrive)

\* the two modes taken for each other
ModeOfSwapped(address) ==
    IF address = <<"1">> THEN CONSTANT_CURRENT ELSE CONSTANT_VOLTAGE

\* the mode a response's address stands for
ModeOf(address) == IF address = <<"1">> THEN CONSTANT_VOLTAGE ELSE CONSTANT_CURRENT

\* what read_voltage and read_current make of the response: the reading
\* int(data1) + int(data2)/1000.0, held in thousandths, and the mode; int()
\* raises ValueError on a field that is no number
Reading(rsp) ==
    IF rsp.raised # "" \/ ~Truthy(rsp.ret) THEN rsp
    ELSE LET c == rsp.ret.cmd
         IN IF IsDigits(c.data1) /\ IsDigits(c.data2)
            THEN Outcome("", TupleValue(IntOfStr(c.data1) * 1000 + IntOfStr(c.data2),
                                        ModeOf(c.address)),
                         rsp.wrote, rsp.reads, rsp.rsp, rsp.rx, rsp.inflight)
            ELSE Outcome("ValueError", None, rsp.wrote, rsp.reads, rsp.rsp, rsp.rx,
                         rsp.inflight)

\* PowerSupply.read_voltage
read_voltage(kind, arrive) ==
    Reading(send_cmd(Command(READ_VOLTAGE, DefaultData, DefaultData), TRUE, kind, arrive))

\* PowerSupply.read_current
read_current(kind, arrive) ==
    Reading(send_cmd(Command(READ_CURRENT, DefaultData, DefaultData), TRUE, kind, arrive))

\* PowerSupply.lock_buttons
lock_buttons(lock, kind, arrive) ==
    send_cmd(Command(LOCK, IF lock THEN LockData1_LOCK ELSE LockData1_UNLOCK, DefaultData),
             TRUE, kind, arrive)

-----------------------------------------------------------------------------
(* Inputs *)

NoMaximum == [set |-> FALSE, val |-> 0]
Maximum(m) == [set |-> TRUE, val |-> m]

\* The (max_voltage, max_current) pairs a session is constructed with: the
\* defaults of __init__, or no limits
DefaultMaxVoltage == 60
DefaultMaxCurrent == 5
Limits ==
    {<<Maximum(DefaultMaxVoltage), Maximum(DefaultMaxCurrent)>>,
     <<NoMaximum, NoMaximum>>}

\* The voltages a caller passes: 3.3, 61.5, 1000.5, -1.0 and infinity
VoltageSetpoints ==
    {ParseFloat(33, 10), ParseFloat(615, 10), ParseFloat(10005, 10),
     NegFloat(1, ZeroFrac), Infinity}

\* The currents a caller passes: 0.25, 5.1567, -1.0 and NaN
CurrentSetpoints ==
    {ParseFloat(25, 100), ParseFloat(51567, 10000), NegFloat(1, ZeroFrac), NaN}

\* --volt and --ampere as argparse hands them over (type=float), or absent
Absent == [given |-> FALSE, v |-> NoArg]
Given(f) == [given |-> TRUE, v |-> f]
VoltArgs == {Absent, Given(ParseFloat(33, 10)), Given(ParseFloat(10005, 10)),
             Given(NegFloat(1, ZeroFrac))}
AmpereArgs == {Absent, Given(ParseFloat(25, 100)), Given(NaN)}

-----------------------------------------------------------------------------
(* State *)

NoCall == [op |-> "none", arg |-> NoArg, raised |-> "", ret |-> None,
           wrote |-> <<>>, reads |-> 0, rsp |-> <<>>]

\* PowerSupply.__init__: a path is opened and owned, a port object is kept
PowerSupplyInit(portArg, maxima) ==
    /\ max_voltage = maxima[1]
    /\ max_current = maxima[2]
    /\ close_port = (portArg = "path")
    /\ port = IF portArg = "path" THEN "opened" ELSE "supplied"
    /\ portOpen = TRUE
    /\ closeCalls = 0
    /\ exited = FALSE

LineInit ==
    /\ nwrites = 0
    /\ nreads = 0
    /\ rx = <<>>
    /\ inflight = <<>>
    /\ ncalls = 0
    /\ last = NoCall

\* the codec is not used on its own
NoCodec == [pc |-> "none", cmd |-> NoCommand, frame |-> <<>>, raised |-> "",
            out |-> <<>>, again |-> NoCommand, raised2 |-> ""]

NoCli == [volt |-> Absent, ampere |-> Absent, enable |-> FALSE, disable |-> FALSE,
          run_test |-> FALSE, pc |-> "none", step |-> 0, status |-> 0, exc |-> ""]

\* A library session: a caller constructs the facade and drives it
Init ==
    /\ \E portArg \in {"path", "object"}, maxima \in Limits :
           PowerSupplyInit(portArg, maxima)
    /\ LineInit
    /\ cli = NoCli
    /\ codec = NoCodec

\* what one call changes on the line, and what it is remembered as
Do(op, arg, res) ==
    /\ nwrites' = nwrites + Len(res.wrote)
    /\ nreads' = nreads + res.reads
    /\ rx' = res.rx
    /\ inflight' = res.inflight
    /\ ncalls' = ncalls + 1
    /\ last' = [op |-> op, arg |-> arg, raised |-> res.raised, ret |-> res.ret,
                wrote |-> res.wrote, reads |-> res.reads, rsp |-> res.rsp]

\* PowerSupply.close
close ==
    /\ portOpen' = FALSE
    /\ closeCalls' = closeCalls + 1

\* __exit__ that leaves the port as it is
PowerSupplyExitKeepingPort ==
    /\ exited' = TRUE
    /\ UNCHANGED <<portOpen, closeCalls>>

\* PowerSupply.__exit__
PowerSupplyExit ==
    /\ exited' = TRUE
    /\ IF close_port THEN close ELSE UNCHANGED <<portOpen, closeCalls>>

-----------------------------------------------------------------------------
(* A library caller's calls *)

CanCall == cli.pc = "none" /\ portOpen /\ ~exited /\ ncalls < MaxCalls

Arrivals == 0..(Len(inflight) + 1)

Output ==
    /\ CanCall
    /\ \E enable \in BOOLEAN, kind \in ReplyKinds :
           /\ MayReply(kind)
           /\ Do("output", Bool(enable), output(enable, kind))
    /\ UNCHANGED <<max_voltage, max_current, port, close_port, portOpen, closeCalls,
                   exited, cli, codec>>

\* set_voltage whose clamp assigns the wrong way round
\* (self.max_voltage = voltage): the value goes out as it came and becomes
\* the maximum (held as its integer part)
SetVoltageAdoptingSetpoint ==
    /\ CanCall
    /\ \E voltage \in VoltageSetpoints, kind \in ReplyKinds, arrive \in Arrivals :
           /\ MayReply(kind)
           /\ Do("set_voltage", voltage,
                 IF ~ValidSetpoint(voltage) THEN RaisedBeforeIO("AssertionError")
                 ELSE send_cmd(SetpointCommand(SET_VOLTAGE, voltage), TRUE, kind, arrive))
           /\ max_voltage' =
                 IF ValidSetpoint(voltage) /\ max_voltage.set
                        /\ GreaterThanInt(voltage, max_voltage.val)
                 THEN Maximum(IntOf(voltage))
                 ELSE max_voltage
    /\ UNCHANGED <<max_current, port, close_port, portOpen, closeCalls,
                   exited, cli, codec>>

SetVoltage ==
    /\ CanCall
    /\ \E voltage \in VoltageSetpoints, kind \in ReplyKinds, arrive \in Arrivals :
           /\ MayReply(kind)
           /\ Do("set_voltage", voltage, set_voltage(voltage, kind, arrive))
    /\ UNCHANGED <<max_voltage, max_current, port, close_port, portOpen, closeCalls,
                   exited, cli, codec>>

SetCurrent ==
    /\ CanCall
    /\ \E current \in CurrentSetpoints, kind \in ReplyKinds, arrive \in Arrivals :
           /\ MayReply(kind)
           /\ Do("set_current", current, set_current(current, kind, arrive))
    /\ UNCHANGED <<max_voltage, max_current, port, close_port, portOpen, closeCalls,
                   exited, cli, codec>>

ReadVoltage ==
    /\ CanCall
    /\ \E kind \in ReplyKinds, arrive \in Arrivals :
           /\ MayReply(kind)
           /\ Do("read_voltage", NoArg, read_voltage(kind, arrive))
    /\ UNCHANGED <<max_voltage, max_current, port, close_port, portOpen, closeCalls,
                   exited, cli, codec>>

ReadCurrent ==
    /\ CanCall
    /\ \E kind \in ReplyKinds, arrive \in Arrivals :
           /\ MayReply(kind)
           /\ Do("read_current", NoArg, read_current(kind, arrive))
    /\ UNCHANGED <<max_voltage, max_current, port, close_port, portOpen, closeCalls,
                   exited, cli, codec>>

LockButtons ==
    /\ CanCall
    /\ \E lock \in BOOLEAN, kind \in ReplyKinds, arrive \in Arrivals :
           /\ MayReply(kind)
           /\ Do("lock_buttons", Bool(lock), lock_buttons(lock, kind, arrive))
    /\ UNCHANGED <<max_voltage, max_current, port, close_port, portOpen, closeCalls,
                   exited, cli, codec>>

\* the caller calls close()
Close ==
    /\ cli.pc = "none"
    /\ closeCalls < MaxCloseCalls
    /\ close
    /\ UNCHANGED <<max_voltage, max_current, port, close_port, nwrites, nreads, rx,
                   inflight, exited, ncalls, last, cli, codec>>

\* the caller's with block ends
Exit ==
    /\ cli.pc = "none"
    /\ ~exited
    /\ PowerSupplyExit
    /\ UNCHANGED <<max_voltage, max_current, port, close_port, nwrites, nreads, rx,
                   inflight, ncalls, last, cli, codec>>

Next ==
    \/ Output
    \/ SetVoltage
    \/ SetCurrent
    \/ ReadVoltage
    \/ ReadCurrent
    \/ LockButtons
    \/ Close
    \/ Exit

Spec == Init /\ [][Next]_vars

-----------------------------------------------------------------------------
(* kuaiquctl: the command line *)

\* simple_test locking the buttons before it sets the first voltage
DemoStepsLockEarly ==
    << [op |-> "output", arg |-> Bool(TRUE)],
       [op |-> "lock_buttons", arg |-> Bool(TRUE)],
       [op |-> "set_current", arg |-> ParseFloat(250, 1000)],
       [op |-> "read_voltage", arg |-> NoArg],
       [op |-> "read_current", arg |-> NoArg],
       [op |-> "set_voltage", arg |-> ParseFloat(515, 100)],
       [op |-> "set_current", arg |-> ParseFloat(100, 1000)],
       [op |-> "set_voltage", arg |-> ParseFloat(33, 10)],
       [op |-> "lock_buttons", arg |-> Bool(FALSE)],
       [op |-> "output", arg |-> Bool(FALSE)],
       [op |-> "set_voltage", arg |-> Float(0, ZeroFrac)],
       [op |-> "set_current", arg |-> Float(0, ZeroFrac)] >>

\* The calls of simple_test, in order
DemoSteps ==
    << [op |-> "output", arg |-> Bool(TRUE)],
       [op |-> "set_voltage", arg |-> ParseFloat(515, 100)],
       [op |-> "set_current", arg |-> ParseFloat(250, 1000)],
       [op |-> "read_voltage", arg |-> NoArg],
       [op |-> "read_current", arg |-> NoArg],
       [op |-> "lock_buttons", arg |-> Bool(TRUE)],
       [op |-> "set_current", arg |-> ParseFloat(100, 1000)],
       [op |-> "set_voltage", arg |-> ParseFloat(33, 10)],
       [op |-> "lock_buttons", arg |-> Bool(FALSE)],
       [op |-> "output", arg |-> Bool(FALSE)],
       [op |-> "set_voltage", arg |-> Float(0, ZeroFrac)],
       [op |-> "set_current", arg |-> Float(0, ZeroFrac)] >>

\* psu.<op>(arg)
Call(op, arg, kind, arrive) ==
    CASE op = "output" -> output(arg.ip = 1, kind)
      [] op = "set_voltage" -> set_voltage(arg, kind, arrive)
      [] op = "set_current" -> set_current(arg, kind, arrive)
      [] op = "read_voltage" -> read_voltage(kind, arrive)
      [] op = "read_current" -> read_current(kind, arrive)
      [] op = "lock_buttons" -> lock_buttons(arg.ip = 1, kind, arrive)

\* The arguments kuaiquctl is started with: --run_test alone, or any of
\* --volt, --ampere and --enable/--disable
CliArgs ==
    {[NoCli EXCEPT !.run_test = TRUE, !.pc = "test", !.step = 1]}
    \cup {[NoCli EXCEPT !.volt = v, !.ampere = a, !.enable = (o = "enable"),
                        !.disable = (o = "disable"), !.pc = "volt"] :
              v \in VoltArgs, a \in AmpereArgs, o \in {"", "enable", "disable"}}

\* with kuaiqu_psu.PowerSupply(args.serial_port, max_current=None, max_voltage=None)
InitCli ==
    /\ PowerSupplyInit("path", <<NoMaximum, NoMaximum>>)
    /\ LineInit
    /\ cli \in CliArgs
    /\ codec = NoCodec

\* the with block is left: by a return, or by an exception, which ends the
\* process with a traceback and status 1
Leave(status, exc) ==
    /\ cli' = [cli EXCEPT !.pc = "exit", !.status = status, !.exc = exc]
    /\ PowerSupplyExit

\* after a call: an exception leaves, a checked result that is not true
\* returns 1, and otherwise the run goes on to nextpc
GoOn(res, checked, nextpc) ==
    IF res.raised # "" THEN Leave(1, res.raised)
    ELSE IF checked /\ ~Truthy(res.ret) THEN Leave(1, "")
    ELSE IF nextpc = "exit" THEN Leave(0, "")
    ELSE /\ cli' = [cli EXCEPT !.pc = nextpc,
                               !.step = IF nextpc = "test" THEN cli.step + 1 ELSE 0]
         /\ UNCHANGED <<portOpen, closeCalls, exited>>

\* kuaiquctl, lines 121-125
CliVolt ==
    /\ cli.pc = "volt"
    /\ IF cli.volt.given
       THEN \E kind \in ReplyKinds, arrive \in Arrivals :
               /\ MayReply(kind)
               /\ LET status == set_voltage(cli.volt.v, kind, arrive)
                  IN Do("set_voltage", cli.volt.v, status) /\ GoOn(status, TRUE, "ampere")
       ELSE /\ cli' = [cli EXCEPT !.pc = "ampere"]
            /\ UNCHANGED <<nwrites, nreads, rx, inflight, ncalls, last, portOpen,
                           closeCalls, exited>>
    /\ UNCHANGED <<max_voltage, max_current, port, close_port, codec>>

\* kuaiquctl, lines 127-131
CliAmpere ==
    /\ cli.pc = "ampere"
    /\ IF cli.ampere.given
       THEN \E kind \in ReplyKinds, arrive \in Arrivals :
               /\ MayReply(kind)
               /\ LET status == set_current(cli.ampere.v, kind, arrive)
                  IN Do("set_current", cli.ampere.v, status) /\ GoOn(status, TRUE, "output")
       ELSE /\ cli' = [cli EXCEPT !.pc = "output"]
            /\ UNCHANGED <<nwrites, nreads, rx, inflight, ncalls, last, portOpen,
                           closeCalls, exited>>
    /\ UNCHANGED <<max_voltage, max_current, port, close_port, codec>>

\* kuaiquctl, lines 133-136 and the return 0
CliOutput ==
    /\ cli.pc = "output"
    /\ IF cli.enable \/ cli.disable
       THEN \E kind \in ReplyKinds :
               /\ MayReply(kind)
               /\ Do("output", Bool(cli.enable), output(cli.enable, kind))
       ELSE UNCHANGED <<nwrites, nreads, rx, inflight, ncalls, last>>
    /\ Leave(0, "")
    /\ UNCHANGED <<max_voltage, max_current, port, close_port, codec>>

\* one call of simple_test with the test that follows it
CliTestStep ==
    /\ cli.pc = "test"
    /\ \E kind \in ReplyKinds, arrive \in Arrivals :
           /\ MayReply(kind)
           /\ LET step == DemoSteps[cli.step]
                  res == Call(step.op, step.arg, kind, arrive)
              IN /\ Do(step.op, step.arg, res)
                 /\ GoOn(res, step.op # "output",
                         IF cli.step = Len(DemoSteps) THEN "exit" ELSE "test")
    /\ UNCHANGED <<max_voltage, max_current, port, close_port, codec>>

NextCli ==
    \/ CliVolt
    \/ CliAmpere
    \/ CliOutput
    \/ CliTestStep

SpecCli == InitCli /\ [][NextCli]_vars

-----------------------------------------------------------------------------
(* The frame codec used on its own: Command.encode and Command.from_bytes   *)
(* are public, and take any Command and any bytes                           *)

\* The bytes a frame's fields are drawn from
CodecBytes == {"0", "K", " ", "<", ">", "0xC3", "0xA9", "0xFF"}

\* 13-byte frames '<' ... '>' whose address and first two data1 bytes vary
CodecFrames ==
    {<<"<", a, "0", x, y, "0", "0", "0", "0", "0", "0", "0", ">">> :
         a \in {"0", "1"}, x \in CodecBytes, y \in CodecBytes}

\* Commands whose fields are shorter than, as long as, or longer than
\* their slots
CodecCommands ==
    {[address |-> a, function |-> <<"2">>, data1 |-> d1, data2 |-> d2, device |-> dv] :
         a \in {<<>>, <<"0">>, <<"a", "b">>},
         d1 \in {<<>>, <<"5">>, <<"1", "2">>, <<"1", "0", "0">>, <<"1", "2", "3", "4">>},
         d2 \in {<<"5">>, <<"0", "0", "0">>},
         dv \in {<<"7">>, <<"0", "0", "0">>}}

\* bytes are handed to from_bytes, or a Command is constructed to be encoded
InitCodec ==
    /\ PowerSupplyInit("object", <<Maximum(DefaultMaxVoltage), Maximum(DefaultMaxCurrent)>>)
    /\ LineInit
    /\ cli = NoCli
    /\ codec \in {[NoCodec EXCEPT !.pc = "from_bytes", !.frame = f] : f \in CodecFrames}
                 \cup {[NoCodec EXCEPT !.pc = "encode", !.cmd = c] : c \in CodecCommands}

\* Command.from_bytes(frame)
CodecFromBytes ==
    /\ codec.pc = "from_bytes"
    /\ LET res == from_bytes(codec.frame)
       IN codec' = [codec EXCEPT !.cmd = res.ret.cmd, !.raised = res.raised,
                                 !.pc = IF res.raised = "" THEN "encode" ELSE "done"]
    /\ UNCHANGED <<max_voltage, max_current, port, close_port, portOpen, closeCalls,
                   nwrites, nreads, rx, inflight, exited, ncalls, last, cli>>

\* cmd.encode()
CodecEncode ==
    /\ codec.pc = "encode"
    /\ codec' = [codec EXCEPT !.out = encode(codec.cmd), !.pc = "again"]
    /\ UNCHANGED <<max_voltage, max_current, port, close_port, portOpen, closeCalls,
                   nwrites, nreads, rx, inflight, exited, ncalls, last, cli>>

\* Command.from_bytes(cmd.encode())
CodecFromBytesAgain ==
    /\ codec.pc = "again"
    /\ LET res == from_bytes(codec.out)
       IN codec' = [codec EXCEPT !.again = res.ret.cmd, !.raised2 = res.raised,
                                 !.pc = "done"]
    /\ UNCHANGED <<max_voltage, max_current, port, close_port, portOpen, closeCalls,
                   nwrites, nreads, rx, inflight, exited, ncalls, last, cli>>

NextCodec ==
    \/ CodecFromBytes
    \/ CodecEncode
    \/ CodecFromBytesAgain

SpecCodec == InitCodec /\ [][NextCodec]_vars

-----------------------------------------------------------------------------
(* Properties *)

SetOps == {"set_voltage", "set_current"}
ReadOps == {"read_voltage", "read_current"}

\* the bytes are a frame: 13 of them, '<' first and '>' last
Delimited13(b) == Len(b) = 13 /\ b[1] = "<" /\ b[13] = ">"

\* the bytes are a frame whose data1 is "OK0"
OK0Frame(b) == Delimited13(b) /\ b[4] = "O" /\ b[5] = "K" /\ b[6] = "0"

IsDigit(c) == c \in {"0", "1", "2", "3", "4", "5", "6", "7", "8", "9"}

\* the number three digit characters stand for
Number3(a, b, c) == 100 * DigitValue(a) + 10 * DigitValue(b) + DigitValue(c)

\* the call just made is one the argument checks reject
InvalidSetpoint(f) == f.cls = "nan" \/ f.cls = "inf" \/ f.neg

\* the value, in thousandths, that a set frame carries: data1 is all but the
\* last six characters before '>' and data2 the three after it
RECURSIVE NumberOf(_)
NumberOf(cs) ==
    IF cs = <<>> THEN 0
    ELSE 10 * NumberOf(SubSeq(cs, 1, Len(cs) - 1)) + DigitValue(cs[Len(cs)])

FrameMilli(frame) ==
    1000 * NumberOf(SubSeq(frame, 4, Len(frame) - 7))
        + NumberOf(SubSeq(frame, Len(frame) - 6, Len(frame) - 4))

\* floor(1000 * f), exactly, for a finite non-negative float
FloorMilli(f) == 1000 * f.ip + ExactTimes1000(f.fr, Len(f.fr), 0).ip

\* f is more than the integer m
Exceeds(f, m) == 1000 * m < FloorMilli(f) \/ (f.ip = m /\ f.fr # ZeroFrac)

\* C1: set_voltage and set_current report a true result exactly when a
\* response frame was received whose data1 is "OK0"; an absent response or a
\* frame with any other data1 gives a false or absent result.
C1_AcceptedIffOK0 ==
    (last.op \in SetOps /\ last.raised = "")
        => (Truthy(last.ret) <=> OK0Frame(last.rsp))

\* C2: lock_buttons writes one frame with function '9' and data1 '100' (lock)
\* or '200' (unlock), address '0', data2 and device '000', and its result is
\* true exactly when a response was received whose data1 is "OK0".
C2_LockButtonsAcknowledged ==
    last.op = "lock_buttons"
        => /\ last.wrote =
                << <<"<", "0", "9">>
                      \o (IF last.arg.ip = 1 THEN <<"1", "0", "0">> ELSE <<"2", "0", "0">>)
                      \o <<"0", "0", "0", "0", "0", "0", ">">> >>
           /\ last.raised = "" => (Truthy(last.ret) <=> OK0Frame(last.rsp))

\* the step just made got no "OK0" confirmation (a set or lock step) or no
\* reading (a read step)
StepUnconfirmed ==
    \/ last.op \in SetOps \cup {"lock_buttons"} /\ ~OK0Frame(last.rsp)
    \/ last.op \in ReadOps /\ last.ret.t # "tuple"

\* C3: in the command line, a set, read or lock step that gets no "OK0"
\* confirmation or no reading ends the run with a non-zero status, at that
\* step: nothing is written after it.
C3_UnconfirmedStepEndsRun ==
    StepUnconfirmed => (cli.pc = "exit" /\ cli.status # 0)

\* the frame a call of a set operation wrote
SetFrame == last.wrote[1]

MaximumOf(op) == IF op = "set_voltage" THEN max_voltage ELSE max_current
SetFunctionOf(op) == IF op = "set_voltage" THEN "1" ELSE "3"

\* C4: a set operation called with a valid value always makes its exchange
\* (one write, one read); with a maximum configured and a value above it the
\* frame written carries the maximum, and no frame carries more than the
\* maximum; with no maximum the frame carries the value itself (its integer
\* part and its thousandths).
C4_SetpointClamped ==
    (last.op \in SetOps /\ ~InvalidSetpoint(last.arg))
        => LET m == MaximumOf(last.op)
           IN /\ Len(last.wrote) = 1
              /\ last.reads = 1
              /\ SetFrame[3] = SetFunctionOf(last.op)
              /\ (m.set /\ Exceeds(last.arg, m.val))
                    => SetFrame = <<"<", "0", SetFunctionOf(last.op)>>
                                     \o FormatInt03(m.val)
                                     \o <<"0", "0", "0", "0", "0", "0", ">">>
              /\ m.set => FrameMilli(SetFrame) <= 1000 * m.val
              /\ (~m.set \/ ~Exceeds(last.arg, m.val))
                    => /\ FrameMilli(SetFrame) \div 1000 = last.arg.ip
                       /\ FrameMilli(SetFrame) - FloorMilli(last.arg) \in {0, 1}

\* a value above the maximum was clamped to it
C4_Witness ==
    /\ last.op = "set_voltage"
    /\ max_voltage.set
    /\ Exceeds(last.arg, max_voltage.val)
    /\ FrameMilli(SetFrame) = 1000 * max_voltage.val
    /\ last.reads = 1

\* C5: set_voltage and set_current called with a negative or non-finite value
\* raise before any I/O: the call leaves the port's write and read counts and
\* the bytes on the line as they were.
C5_InvalidSetpointNoIO ==
    [][(ncalls' = ncalls + 1 /\ last'.op \in SetOps /\ InvalidSetpoint(last'.arg))
          => /\ last'.raised = "AssertionError"
             /\ last'.wrote = <<>>
             /\ nwrites' = nwrites
             /\ nreads' = nreads
             /\ rx' = rx
             /\ inflight' = inflight]_vars

\* a second call, with NaN, was rejected after a first one had done I/O
C5_Witness ==
    /\ last.op = "set_current"
    /\ last.arg = NaN
    /\ last.raised = "AssertionError"
    /\ ncalls = 2
    /\ nwrites = 1

\* C6: every byte string written to the port is a frame of exactly 13 bytes,
\* '<' first and '>' last; a command whose field does not fit is rejected,
\* not written longer.
C6_FramesAre13Bytes ==
    \A i \in 1..Len(last.wrote) : Delimited13(last.wrote[i])

\* C7: output(enable) makes exactly one write and no read: it writes the
\* frame with function '7' (enable) or '8' (disable), returns nothing and
\* takes no response off the line.
C7_OutputOneWriteNoRead ==
    [][(ncalls' = ncalls + 1 /\ last'.op = "output")
          => /\ nwrites' = nwrites + 1
             /\ nreads' = nreads
             /\ rx' = rx
             /\ last'.wrote =
                    << <<"<", "0", IF last'.arg.ip = 1 THEN "7" ELSE "8">>
                          \o <<"0", "0", "0", "0", "0", "0", "0", "0", "0", ">">> >>
             /\ last'.reads = 0
             /\ last'.rsp = <<>>
             /\ last'.raised = ""
             /\ last'.ret = None]_vars

\* output(True) was called while a reply was on its way, and left it there
C7_Witness ==
    /\ last.op = "output"
    /\ last.arg.ip = 1
    /\ nwrites = ncalls
    /\ last.reads = 0
    /\ inflight # <<>>

\* C8: in an exchange that reads, an empty read gives absence and raises
\* nothing, while a non-empty read that is not 13 bytes delimited by '<' and
\* '>' raises the decode failure and gives no Command and no reading.
C8_EmptyReadAbsentMalformedRaises ==
    last.reads = 1
        => /\ last.rsp = <<>> => (last.raised = "" /\ last.ret = None)
           /\ (last.rsp # <<>> /\ ~Delimited13(last.rsp))
                 => (last.raised = "AssertionError" /\ last.ret = None)

\* read_voltage read 13 bytes that do not start with '<', and raised
C8_Witness ==
    /\ last.op = "read_voltage"
    /\ Len(last.rsp) = 13
    /\ last.rsp[1] # "<"
    /\ last.raised = "AssertionError"

\* C9: read_voltage and read_current, on a response frame whose data1 and
\* data2 are three digits each, return (value, mode) with value =
\* int(data1) + int(data2)/1000 and mode CONSTANT_VOLTAGE exactly when the
\* address is '1', CONSTANT_CURRENT otherwise.
C9_ReadingAndMode ==
    (/\ last.op \in ReadOps
     /\ Delimited13(last.rsp)
     /\ \A i \in 4..9 : IsDigit(last.rsp[i]))
        => /\ last.raised = ""
           /\ last.ret.t = "tuple"
           /\ last.ret.milli = 1000 * Number3(last.rsp[4], last.rsp[5], last.rsp[6])
                                 + Number3(last.rsp[7], last.rsp[8], last.rsp[9])
           /\ last.ret.mode \in {CONSTANT_VOLTAGE, CONSTANT_CURRENT}
           /\ last.ret.mode = CONSTANT_VOLTAGE <=> last.rsp[2] = "1"

\* read_current got a reading in constant-current mode
C9_Witness ==
    /\ last.op = "read_current"
    /\ last.ret.t = "tuple"
    /\ last.ret.milli = 12007
    /\ last.ret.mode = CONSTANT_CURRENT
    /\ last.rsp[2] = "0"

\* C10: a port the facade opened from a path is closed exactly once, and a
\* port the caller supplied is never closed by the facade.
C10_PortClosedOnceIfOwned ==
    /\ closeCalls <= 1
    /\ port = "supplied" => closeCalls = 0

\* C11: in the command line the port opened at the start is released on every
\* way out (normal completion, an early return 1, an error raised by a call):
\* the run ends with the port closed, closed once, and nothing is written
\* once it is closed.
C11_CliReleasesPort ==
    [][/\ cli'.pc = "exit" => (~portOpen' /\ closeCalls' = 1 /\ exited')
       /\ ~portOpen => nwrites' = nwrites]_vars

\* the demo sequence was left by an error raised after its first steps, and
\* the port is closed
C11_Witness ==
    /\ cli.run_test
    /\ cli.pc = "exit"
    /\ cli.step > 1
    /\ cli.exc # ""
    /\ ~portOpen
    /\ closeCalls = 1

\* the operations that make an exchange: a write and the read of its answer
ExchangeOps == SetOps \cup ReadOps \cup {"lock_buttons"}

\* C13: the response an operation reads and interprets is the device's reply
\* to the command that operation wrote: when a call reads any bytes, nothing
\* of an earlier reply was waiting at the port or still on its way.
C13_ResponseIsOwnReply ==
    [][(ncalls' = ncalls + 1 /\ last'.reads = 1 /\ last'.rsp # <<>>)
          => (rx = <<>> /\ inflight = <<>>)]_vars

\* C16: every call of set_voltage, set_current, read_voltage, read_current or
\* lock_buttons that passes the argument checks makes exactly one write and
\* exactly one read, whatever the outcome; nothing is written again.
C16_OneWriteOneRead ==
    [][(/\ ncalls' = ncalls + 1
        /\ last'.op \in ExchangeOps
        /\ ~(last'.op \in SetOps /\ InvalidSetpoint(last'.arg)))
          => /\ nwrites' = nwrites + 1
             /\ nreads' = nreads + 1
             /\ Len(last'.wrote) = 1
             /\ last'.reads = 1]_vars

\* a second exchange timed out with nothing read, after a first one
C16_Witness ==
    /\ ncalls = 2
    /\ nwrites = 2
    /\ nreads = 2
    /\ last.op \in ExchangeOps
    /\ last.reads = 1
    /\ last.rsp = <<>>
    /\ last.raised = ""

\* the value a set operation sends: its argument, or the maximum it exceeds
SentValue ==
    LET m == MaximumOf(last.op)
    IN IF m.set /\ Exceeds(last.arg, m.val) THEN Float(m.val, ZeroFrac) ELSE last.arg

\* setpoints given in whole thousandths: 0, 0.1, 0.25, 3.3, 5.15
WholeThousandths == {0, 100, 250, 3300, 5150}

\* C15: a set operation writes data1 = the integer part of the value sent and
\* data2 = its fraction cut to thousandths, so that the frame carries
\* floor(v * 1000) thousandths; a value given in whole thousandths (3.3,
\* 0.25) is written as exactly that value.
C15_TruncatedToThousandths ==
    (last.op \in SetOps /\ ~InvalidSetpoint(last.arg))
        => /\ SubSeq(SetFrame, 4, Len(SetFrame) - 7) = FormatInt03(SentValue.ip)
           /\ FrameMilli(SetFrame) = FloorMilli(SentValue)
           /\ \A m \in WholeThousandths :
                  SentValue = ParseFloat(m, 1000) => FrameMilli(SetFrame) = m

\* the function codes of the demo sequence, in order
DemoFunctions == <<"7", "1", "3", "2", "4", "9", "3", "1", "9", "8", "1", "3">>

\* the operations and values of the demo sequence, in order (a value in
\* thousandths; for output and lock 1 is on, 0 is off)
DemoCalls ==
    << <<"output", 1>>, <<"set_voltage", 5150>>, <<"set_current", 250>>,
       <<"read_voltage", 0>>, <<"read_current", 0>>, <<"lock_buttons", 1>>,
       <<"set_current", 100>>, <<"set_voltage", 3300>>, <<"lock_buttons", 0>>,
       <<"output", 0>>, <<"set_voltage", 0>>, <<"set_current", 0>> >>

\* the k-th call of the run was the k-th call of the demo sequence
IsDemoCall(k) ==
    /\ last.op = DemoCalls[k][1]
    /\ IF last.op \in SetOps THEN last.arg = ParseFloat(DemoCalls[k][2], 1000)
       ELSE IF last.op \in ReadOps THEN last.arg = NoArg
       ELSE last.arg = Bool(DemoCalls[k][2] = 1)

\* C17: the demo sequence writes its twelve commands in the order 7, 1, 3, 2,
\* 4, 9 (data1 100), 3, 1, 9 (data1 200), 8, 1, 3, one frame per step; a run
\* in which every step is acknowledged writes all twelve and returns 0; no
\* run returns 0 otherwise, and an output step never ends the run with a
\* non-zero status.
C17_DemoSequenceOrder ==
    (cli.run_test /\ ncalls >= 1)
        => /\ ncalls <= 12
           /\ nwrites = ncalls
           /\ IsDemoCall(ncalls)
           /\ Len(last.wrote) = 1
           /\ last.wrote[1][3] = DemoFunctions[ncalls]
           /\ ncalls = 6 => SubSeq(last.wrote[1], 4, 6) = <<"1", "0", "0">>
           /\ ncalls = 9 => SubSeq(last.wrote[1], 4, 6) = <<"2", "0", "0">>
           /\ (ncalls = 12 /\ last.raised = "" /\ Truthy(last.ret))
                 => (cli.pc = "exit" /\ cli.status = 0 /\ cli.exc = "")
           /\ (cli.pc = "exit" /\ cli.status = 0) => ncalls = 12
           /\ (cli.pc = "exit" /\ cli.status # 0) => last.op # "output"
           /\ last.op = "output" => cli.pc = "test"

\* the demo sequence ran to its end and returned 0
C17_Witness ==
    /\ cli.run_test
    /\ cli.pc = "exit"
    /\ cli.status = 0
    /\ nwrites = 12
    /\ last.op = "set_current"

\* the frame with address '0', device '000' and the given function and data
FrameOf(function, data1, data2) ==
    <<"<", "0", function>> \o data1 \o data2 \o <<"0", "0", "0", ">">>

\* the finite valid setpoints a caller passes: 3.3, 61.5 and 1000.5 V, 0.25 and
\* 5.1567 A
Volts3_3 == ParseFloat(33, 10)
Volts61_5 == ParseFloat(615, 10)
Volts1000_5 == ParseFloat(10005, 10)
Amperes0_25 == ParseFloat(25, 100)
Amperes5_1567 == ParseFloat(51567, 10000)

\* The frame each call is to write, from its arguments and the maxima alone
\* (a setpoint is named by the decimal it was given as)
ExpectedFrame(op, arg, maximum) ==
    CASE op = "output" ->
            FrameOf(IF arg = Bool(TRUE) THEN "7" ELSE "8", <<"0", "0", "0">>, <<"0", "0", "0">>)
      [] op = "read_voltage" -> FrameOf("2", <<"0", "0", "0">>, <<"0", "0", "0">>)
      [] op = "read_current" -> FrameOf("4", <<"0", "0", "0">>, <<"0", "0", "0">>)
      [] op = "lock_buttons" ->
            FrameOf("9", IF arg = Bool(TRUE) THEN <<"1", "0", "0">> ELSE <<"2", "0", "0">>,
                    <<"0", "0", "0">>)
      [] op = "set_voltage" /\ arg = Volts3_3 ->
            FrameOf("1", <<"0", "0", "3">>, <<"2", "9", "9">>)
      [] op = "set_voltage" /\ arg = Volts61_5 ->
            IF maximum.set THEN FrameOf("1", <<"0", "6", "0">>, <<"0", "0", "0">>)
            ELSE FrameOf("1", <<"0", "6", "1">>, <<"5", "0", "0">>)
      [] op = "set_voltage" /\ arg = Volts1000_5 ->
            IF maximum.set THEN FrameOf("1", <<"0", "6", "0">>, <<"0", "0", "0">>)
            ELSE FrameOf("1", <<"1", "0", "0", "0">>, <<"5", "0", "0">>)
      [] op = "set_current" /\ arg = Amperes0_25 ->
            FrameOf("3", <<"0", "0", "0">>, <<"2", "5", "0">>)
      [] op = "set_current" /\ arg = Amperes5_1567 ->
            IF maximum.set THEN FrameOf("3", <<"0", "0", "5">>, <<"0", "0", "0">>)
            ELSE FrameOf("3", <<"0", "0", "5">>, <<"1", "5", "6">>)

\* C18: no operation, whatever its outcome, changes max_voltage, max_current,
\* the port handle or the ownership flag, and the frame a call writes is
\* determined by its arguments and the configured maxima alone, whatever was
\* called or received before.
C18_FacadeStateless ==
    [][ncalls' = ncalls + 1
          => /\ max_voltage' = max_voltage
             /\ max_current' = max_current
             /\ port' = port
             /\ close_port' = close_port
             /\ IF last'.op \in SetOps /\ InvalidSetpoint(last'.arg)
                THEN last'.wrote = <<>>
                ELSE last'.wrote =
                         <<ExpectedFrame(last'.op, last'.arg, MaximumOf(last'.op))>>]_vars

\* a second call, made after a first one had read a response, wrote the
\* frame its argument and the maximum determine
C18_Witness ==
    /\ ncalls = 2
    /\ nreads = 2
    /\ last.op = "set_voltage"
    /\ last.arg = Volts61_5
    /\ max_voltage = Maximum(DefaultMaxVoltage)
    /\ last.wrote = <<FrameOf("1", <<"0", "6", "0">>, <<"0", "0", "0">>)>>

\* a frame was handed to from_bytes (not a Command to encode)
FromFrame == codec.frame # <<>>

\* C12: for every 13-byte frame that starts with '<' and ends with '>',
\* whatever its fields contain, from_bytes gives a Command, encode of that
\* Command reproduces the frame byte for byte, and from_bytes of the
\* re-encoded bytes gives the same Command again.
C12_CodecRoundTrip ==
    (FromFrame /\ Delimited13(codec.frame) /\ codec.pc = "done")
        => /\ codec.raised = ""
           /\ codec.out = codec.frame
           /\ codec.raised2 = ""
           /\ codec.again = codec.cmd

\* f'{s:0>3}': zeros on the left
LeftPadded(s) == Repeat("0", 3 - Len(s)) \o s

\* C14: encode writes a data1, data2 or device field shorter than three
\* characters with '0' on the left, address and function one character each.
C14_EncodePadsLeft ==
    (/\ ~FromFrame
     /\ codec.pc \in {"again", "done"}
     /\ Len(codec.cmd.address) = 1
     /\ Len(codec.cmd.function) = 1
     /\ \A fld \in {codec.cmd.data1, codec.cmd.data2, codec.cmd.device} : Len(fld) <= 3)
        => codec.out = <<"<">> \o codec.cmd.address \o codec.cmd.function
                           \o LeftPadded(codec.cmd.data1) \o LeftPadded(codec.cmd.data2)
                           \o LeftPadded(codec.cmd.device) \o <<">">>

=============================================================================
